---- MODULE Spec2Model ----
(***************************************************************************)
(* A model of the task-management API of task-api/app: the credential and  *)
(* token service (auth.py, crud.py user operations) and the task ownership *)
(* store (crud.py task operations behind routers/tasks.py).                *)
(*                                                                         *)
(* Time is counted in ticks of half a second, so that the truncation of an *)
(* expiry instant to whole seconds (python-jose's timegm of "exp") is a    *)
(* conversion the model performs and not the identity.                     *)
(***************************************************************************)
EXTENDS Integers, Sequences, FiniteSets, TLC

VARIABLES
    users,   \* the users table: email -> [id, hashed_password]
    tasks,   \* the tasks table: id -> row
    now,     \* the wall clock, in ticks
    wallet,  \* the tokens issued so far and held by clients (not stored server-side)
    deleted, \* history: id -> the user whose delete removed it, until the id is handed out again
    created, \* history: id -> the Task that create returned, until an update or delete of it succeeds
    resp,    \* the last request and its response
    inflight \* client -> the request of it that has done its lookup and not yet its commit

vars == <<users, tasks, now, wallet, deleted, created, resp, inflight>>

(***************************** bounds **************************************)
MaxTasks == 2
MaxTick == 1
MaxAuthTick == 2
MaxTokens == 1

TicksPerSec == 2

(***************************** values **************************************)
None == "None"

Emails == {"a@x.io", "b@x.io"}
Passwords == {"pw-one-1", "pw-two-2"}
Salts == {"s1", "s2"}

TaskIds == 1..MaxTasks

FieldNames == {"title", "description", "status", "priority"}

Restrict(f, F) == [k \in F |-> f[k]]

\* A dictionary, or a JSON object, with no key.
EmptyDict == [k \in {} |-> ""]

\* Python's Optional[T]: the empty set is None, {x} is the value x.
Nothing == {}
Some(x) == {x}
Get(o) == CHOOSE x \in o : TRUE

(************************** passwords (crud.py) ****************************)
\* pwd_context.hash: a salted one-way digest; the salt is drawn afresh, so
\* the possible results are a set.
get_password_hash(password) ==
    {[salt |-> s, digest |-> password] : s \in Salts}

\* pwd_context.verify: recomputes the digest under the hash's own salt.
verify_password(plain_password, hashed_password) ==
    hashed_password.digest = plain_password

UserRow(db_users, email) ==
    [id |-> db_users[email].id, email |-> email,
     hashed_password |-> db_users[email].hashed_password]

get_user_by_email(db_users, email) ==
    IF email \in DOMAIN db_users THEN Some(UserRow(db_users, email)) ELSE Nothing

\* authenticate_user without the password check.
authenticate_user_any_password(db_users, email, password) ==
    get_user_by_email(db_users, email)

authenticate_user(db_users, email, password) ==
    LET user == get_user_by_email(db_users, email)
    IN IF user = Nothing THEN Nothing
       ELSE IF ~verify_password(password, Get(user).hashed_password) THEN Nothing
       ELSE user

(***************************** tokens (auth.py) ****************************)
ACCESS_TOKEN_EXPIRE_MINUTES == 30
DefaultExpireMinutes == 15

Minutes(m) == m * 60 * TicksPerSec

\* calendar.timegm of a datetime: whole seconds, the fraction dropped.
timegm(t) == t \div TicksPerSec

\* Subjects a payload can carry besides an email.
NoSub == "<no sub claim>"
NonStringSub == "<sub: 123>"

\* A token is its payload and whether its signature verifies under
\* SECRET_KEY with ALGORITHM.  Malformed is a string that is no JWT at all.
Signed == "HS256"
Malformed == [sub |-> NoSub, exp |-> 0, sig |-> "not a JWT"]

\* data is the claim dictionary; expires_delta is an Optional duration in
\* ticks.  A zero timedelta is falsy in Python, like None.
create_access_token(data, expires_delta, t) ==
    LET expire == IF expires_delta # Nothing /\ Get(expires_delta) # 0
                  THEN t + Get(expires_delta)
                  ELSE t + Minutes(DefaultExpireMinutes)
    IN [sub |-> IF "sub" \in DOMAIN data THEN data["sub"] ELSE NoSub,
        exp |-> timegm(expire),
        sig |-> Signed]

\* jose.jwt.decode: the payload, or the name of the JWTError (sub)class raised.
jwt_decode(token, t) ==
    IF token.sig # Signed THEN [error |-> "JWTError", sub |-> NoSub]
    ELSE IF token.exp < timegm(t) THEN [error |-> "ExpiredSignatureError", sub |-> NoSub]
    ELSE IF token.sub = NonStringSub THEN [error |-> "JWTClaimsError", sub |-> NoSub]
    ELSE [error |-> "", sub |-> token.sub]

\* except JWTError catches the class and its subclasses.
JWTErrors == {"JWTError", "ExpiredSignatureError", "JWTClaimsError"}

CredentialsException ==
    [status_code |-> 401, detail |-> "Could not validate credentials",
     headers |-> "WWW-Authenticate: Bearer"]

NoException == [status_code |-> 0, detail |-> "", headers |-> ""]
Uncaught(name) == [status_code |-> 500, detail |-> name, headers |-> ""]

\* verify_token with an except clause that misses JWTError's subclasses.
verify_token_narrow_except(token, credentials_exception, t) ==
    LET payload == jwt_decode(token, t)
    IN IF payload.error = "JWTError"
       THEN [email |-> "", raised |-> credentials_exception]
       ELSE IF payload.error # ""
       THEN [email |-> "", raised |-> Uncaught(payload.error)]
       ELSE IF payload.sub = NoSub
       THEN [email |-> "", raised |-> credentials_exception]
       ELSE [email |-> payload.sub, raised |-> NoException]

\* The TokenData returned, or the exception that leaves the call.
verify_token(token, credentials_exception, t) ==
    LET payload == jwt_decode(token, t)
    IN IF payload.error \in JWTErrors
       THEN [email |-> "", raised |-> credentials_exception]
       ELSE IF payload.error # ""
       THEN [email |-> "", raised |-> Uncaught(payload.error)]
       ELSE IF payload.sub = NoSub
       THEN [email |-> "", raised |-> credentials_exception]
       ELSE [email |-> payload.sub, raised |-> NoException]

\* get_current_user answering a missing user with an error of its own.
get_current_user_404(token, db_users, t) ==
    LET token_data == verify_token(token, CredentialsException, t)
    IN IF token_data.raised # NoException
       THEN [user |-> Nothing, raised |-> token_data.raised]
       ELSE LET user == get_user_by_email(db_users, token_data.email)
            IN IF user = Nothing
               THEN [user |-> Nothing,
                     raised |-> [status_code |-> 404, detail |-> "User not found",
                                 headers |-> ""]]
               ELSE [user |-> user, raised |-> NoException]

\* The user the bearer token resolves to, or the exception raised.
get_current_user(token, db_users, t) ==
    LET token_data == verify_token(token, CredentialsException, t)
    IN IF token_data.raised # NoException
       THEN [user |-> Nothing, raised |-> token_data.raised]
       ELSE LET user == get_user_by_email(db_users, token_data.email)
            IN IF user = Nothing
               THEN [user |-> Nothing, raised |-> CredentialsException]
               ELSE [user |-> user, raised |-> NoException]

(************************** schemas (schemas.py) ****************************)
\* TaskCreate with another default priority.
TaskCreate_low_default(body) ==
    [title |-> body["title"],
     description |-> IF "description" \in DOMAIN body THEN body["description"] ELSE None,
     priority |-> IF "priority" \in DOMAIN body THEN body["priority"] ELSE "low"]

\* TaskCreate: title required, description defaults to None, priority to
\* MEDIUM; keys that are no field of the schema (such as status) are dropped.
TaskCreate(body) ==
    [title |-> body["title"],
     description |-> IF "description" \in DOMAIN body THEN body["description"] ELSE None,
     priority |-> IF "priority" \in DOMAIN body THEN body["priority"] ELSE "medium"]

\* model_dump() without exclude_unset: the fields left out come as None.
TaskUpdate_dump_all(body) ==
    [f \in FieldNames |-> IF f \in DOMAIN body THEN body[f] ELSE None]

\* TaskUpdate(...).model_dump(exclude_unset=True): the fields of the schema
\* that the request body names, with the values it gives them.
TaskUpdate(body) == Restrict(body, DOMAIN body \cap FieldNames)

\* schemas.Task built from a row (from_attributes): the row with its key.
TaskOut(db_tasks, id) ==
    [id |-> id,
     title |-> db_tasks[id].title,
     description |-> db_tasks[id].description,
     status |-> db_tasks[id].status,
     priority |-> db_tasks[id].priority,
     user_id |-> db_tasks[id].user_id,
     created_at |-> db_tasks[id].created_at,
     updated_at |-> db_tasks[id].updated_at]

(************************ the tasks table (models.py) **********************)
\* The columns the table fills in on INSERT.
InsertDefaults(t) == [status |-> "todo", created_at |-> t, updated_at |-> t]

\* The column the table refreshes when an update is committed.
OnUpdate(row, t) == [row EXCEPT !.updated_at = t]

\* The keys the storage engine may hand out for a new row.
NewIds(db_tasks) == TaskIds \ DOMAIN db_tasks

(************************** task operations (crud.py) **********************)
\* The ids of user_id's rows in the order the query returns them.
RECURSIVE IdsFrom(_, _, _)
IdsFrom(db_tasks, user_id, i) ==
    IF i > MaxTasks THEN <<>>
    ELSE (IF i \in DOMAIN db_tasks /\ db_tasks[i].user_id = user_id THEN <<i>> ELSE <<>>)
         \o IdsFrom(db_tasks, user_id, i + 1)

Least(a, b) == IF a < b THEN a ELSE b

\* query.filter(user_id).offset(skip).limit(limit).all(): the rows in key
\* order, with OFFSET and LIMIT as SQLite (the engine of tests/conftest.py)
\* reads them: a negative OFFSET counts as 0, a negative LIMIT as no limit.
get_tasks(db_tasks, user_id, skip, limit) ==
    LET ids == IdsFrom(db_tasks, user_id, 1)
        first == IF skip < 0 THEN 1 ELSE skip + 1
        last == IF limit < 0 THEN Len(ids) ELSE Least(Len(ids), first - 1 + limit)
        page == SubSeq(ids, first, last)
    IN [i \in 1..Len(page) |-> TaskOut(db_tasks, page[i])]

\* get_task without the owner filter.
get_task_any_owner(db_tasks, task_id, user_id) ==
    IF task_id \in DOMAIN db_tasks THEN Some(task_id) ELSE Nothing

\* get_task without the key filter: the user's first row.
get_task_ignoring_id(db_tasks, task_id, user_id) ==
    LET ids == IdsFrom(db_tasks, user_id, 1)
    IN IF ids = <<>> THEN Nothing ELSE Some(ids[1])

\* Optional id of the row with this key and this owner.
get_task(db_tasks, task_id, user_id) ==
    IF task_id \in DOMAIN db_tasks /\ db_tasks[task_id].user_id = user_id
    THEN Some(task_id) ELSE Nothing

\* The table after the INSERT of the row under key id.
create_task(db_tasks, task, user_id, id, t) ==
    LET d == InsertDefaults(t)
        row == [title |-> task.title, description |-> task.description,
                status |-> d.status, priority |-> task.priority,
                user_id |-> user_id,
                created_at |-> d.created_at, updated_at |-> d.updated_at]
    IN [x \in DOMAIN db_tasks \cup {id} |-> IF x = id THEN row ELSE db_tasks[x]]

\* setattr(db_task, field, value) for every item of update_data.
SetAttrs(row, update_data) ==
    [f \in DOMAIN row |-> IF f \in DOMAIN update_data THEN update_data[f] ELSE row[f]]

\* update_task returning early, before the commit, when no field is given.
update_task_skip_empty(db_tasks, task_id, update_data, user_id, t) ==
    LET db_task == get_task(db_tasks, task_id, user_id)
    IN IF db_task = Nothing THEN [found |-> FALSE, id |-> 0, db |-> db_tasks]
       ELSE IF DOMAIN update_data = {}
       THEN [found |-> TRUE, id |-> Get(db_task), db |-> db_tasks]
       ELSE [found |-> TRUE, id |-> Get(db_task),
             db |-> [db_tasks EXCEPT
                       ![Get(db_task)] =
                           OnUpdate(SetAttrs(db_tasks[Get(db_task)], update_data), t)]]

\* delete_task looking the row up by its key alone.
delete_task_any_owner(db_tasks, task_id, user_id) ==
    IF task_id \notin DOMAIN db_tasks THEN [found |-> FALSE, id |-> 0, db |-> db_tasks]
    ELSE [found |-> TRUE, id |-> task_id,
          db |-> [x \in DOMAIN db_tasks \ {task_id} |-> db_tasks[x]]]

\* delete_task whose delete is never committed.
delete_task_no_commit(db_tasks, task_id, user_id) ==
    LET db_task == get_task(db_tasks, task_id, user_id)
    IN IF db_task = Nothing THEN [found |-> FALSE, id |-> 0, db |-> db_tasks]
       ELSE [found |-> TRUE, id |-> Get(db_task), db |-> db_tasks]

\* [found, id, db]: whether a row was found for the user, its key, and the
\* table after the commit.
update_task(db_tasks, task_id, update_data, user_id, t) ==
    LET db_task == get_task(db_tasks, task_id, user_id)
    IN IF db_task = Nothing THEN [found |-> FALSE, id |-> 0, db |-> db_tasks]
       ELSE [found |-> TRUE, id |-> Get(db_task),
             db |-> [db_tasks EXCEPT
                       ![Get(db_task)] =
                           OnUpdate(SetAttrs(db_tasks[Get(db_task)], update_data), t)]]

delete_task(db_tasks, task_id, user_id) ==
    LET db_task == get_task(db_tasks, task_id, user_id)
    IN IF db_task = Nothing THEN [found |-> FALSE, id |-> 0, db |-> db_tasks]
       ELSE [found |-> TRUE, id |-> Get(db_task),
             db |-> [x \in DOMAIN db_tasks \ {Get(db_task)} |-> db_tasks[x]]]

(****************************** requests ***********************************)
\* Request bodies of POST /tasks/: title, and any of description, priority
\* and a status the schema does not know.
CreateBodies ==
    {Restrict(b, {"title"} \cup F) :
        b \in [title : {"Buy milk"}, description : {"2 litres"},
               priority : {"high"}, status : {"done"}],
        F \in SUBSET {"description", "priority", "status"}}

\* Request bodies of PUT /tasks/{id}: any subset of the four fields.
UpdateBodies ==
    {Restrict(b, F) :
        b \in [title : {"Buy bread"}, description : {None},
               status : {"done"}, priority : {"high"}],
        F \in SUBSET FieldNames}

\* skip and limit are any int of the query string; the handler passes them on.
Skips == {0, 1}
DefaultLimit == 100
Limits == {-1, 1, DefaultLimit}

\* A token with the payload of tok whose signature no longer verifies.
Tamper(tok) == [tok EXCEPT !.sig = "altered"]

\* What a client can put in the Authorization header.
PresentableTokens ==
    {w.token : w \in wallet} \cup {Tamper(w.token) : w \in wallet} \cup {Malformed}

NotFound == [status_code |-> 404, detail |-> "Task not found", headers |-> ""]

\* A request and its response: the handler (op), the user the token resolved
\* to (uid, or 0), the path parameter (tid, or 0), the body or query (req),
\* the status code, the exception raised (or NoException) and the objects
\* returned (out).
Response(op, uid, tid, req, code, error, out) ==
    [op |-> op, uid |-> uid, tid |-> tid, req |-> req, code |-> code,
     error |-> error, out |-> out]

Ok(op, uid, tid, req, out) == Response(op, uid, tid, req, 200, NoException, out)
Failed(op, uid, tid, req, exc) == Response(op, uid, tid, req, exc.status_code, exc, <<>>)

\* The dependency get_current_user raised: the handler body does not run.
Denied(op, exc) == Failed(op, 0, 0, EmptyDict, exc)

\* Requests are served one at a time: a handler starts when the previous
\* response has been sent.
NoResponse == Response("none", 0, 0, EmptyDict, 0, NoException, <<>>)
Idle == resp.op = "none"

\* Bookkeeping of the two history variables.
Record(h, id, v) == [x \in DOMAIN h \cup {id} |-> IF x = id THEN v ELSE h[x]]
Without(h, id) == [x \in DOMAIN h \ {id} |-> h[x]]

(**************************** routers/tasks.py *****************************)
ReadTasks ==
    /\ Idle
    /\ \E token \in PresentableTokens :
        LET auth == get_current_user(token, users, now)
        IN IF auth.user = Nothing
           THEN resp' = Denied("read_tasks", auth.raised)
           ELSE \E skip \in Skips, limit \in Limits :
                   resp' = Ok("read_tasks", Get(auth.user).id, 0,
                              [skip |-> skip, limit |-> limit],
                              get_tasks(tasks, Get(auth.user).id, skip, limit))
    /\ UNCHANGED <<users, tasks, now, wallet, deleted, created, inflight>>

CreateTask ==
    /\ Idle
    /\ \E token \in PresentableTokens :
        LET auth == get_current_user(token, users, now)
        IN IF auth.user = Nothing
           THEN /\ resp' = Denied("create_task", auth.raised)
                /\ UNCHANGED <<tasks, deleted, created>>
           ELSE \E body \in CreateBodies, id \in NewIds(tasks) :
                   LET uid == Get(auth.user).id
                       db == create_task(tasks, TaskCreate(body), uid, id, now)
                   IN /\ tasks' = db
                      /\ resp' = Ok("create_task", uid, 0, body, <<TaskOut(db, id)>>)
                      /\ deleted' = Without(deleted, id)
                      /\ created' = Record(created, id, TaskOut(db, id))
    /\ UNCHANGED <<users, now, wallet, inflight>>

ReadTask ==
    /\ Idle
    /\ \E token \in PresentableTokens :
        LET auth == get_current_user(token, users, now)
        IN IF auth.user = Nothing
           THEN resp' = Denied("read_task", auth.raised)
           ELSE \E task_id \in TaskIds :
                   LET uid == Get(auth.user).id
                       db_task == get_task(tasks, task_id, uid)
                   IN resp' = IF db_task = Nothing
                              THEN Failed("read_task", uid, task_id, EmptyDict, NotFound)
                              ELSE Ok("read_task", uid, task_id, EmptyDict,
                                      <<TaskOut(tasks, Get(db_task))>>)
    /\ UNCHANGED <<users, tasks, now, wallet, deleted, created, inflight>>

UpdateTask ==
    /\ Idle
    /\ \E token \in PresentableTokens :
        LET auth == get_current_user(token, users, now)
        IN IF auth.user = Nothing
           THEN /\ resp' = Denied("update_task", auth.raised)
                /\ UNCHANGED <<tasks, created>>
           ELSE \E task_id \in TaskIds, body \in UpdateBodies :
                   LET uid == Get(auth.user).id
                       r == update_task(tasks, task_id, TaskUpdate(body), uid, now)
                   IN /\ tasks' = r.db
                      /\ resp' = IF r.found
                                 THEN Ok("update_task", uid, task_id, body,
                                         <<TaskOut(r.db, r.id)>>)
                                 ELSE Failed("update_task", uid, task_id, body, NotFound)
                      /\ created' = IF r.found THEN Without(created, r.id) ELSE created
    /\ UNCHANGED <<users, now, wallet, deleted, inflight>>

DeleteTask ==
    /\ Idle
    /\ \E token \in PresentableTokens :
        LET auth == get_current_user(token, users, now)
        IN IF auth.user = Nothing
           THEN /\ resp' = Denied("delete_task", auth.raised)
                /\ UNCHANGED <<tasks, deleted, created>>
           ELSE \E task_id \in TaskIds :
                   LET uid == Get(auth.user).id
                       r == delete_task(tasks, task_id, uid)
                   IN /\ tasks' = r.db
                      /\ resp' = IF r.found
                                 THEN Ok("delete_task", uid, task_id, EmptyDict,
                                         <<[message |-> "Task deleted successfully"]>>)
                                 ELSE Failed("delete_task", uid, task_id, EmptyDict, NotFound)
                      /\ deleted' = IF r.found THEN Record(deleted, task_id, uid) ELSE deleted
                      /\ created' = IF r.found THEN Without(created, r.id) ELSE created
    /\ UNCHANGED <<users, now, wallet, inflight>>

\* The response is sent and the server waits for the next request.
Complete ==
    /\ ~Idle
    /\ resp' = NoResponse
    /\ UNCHANGED <<users, tasks, now, wallet, deleted, created, inflight>>

\* Half a second passes.
Tick ==
    /\ Idle
    /\ now < MaxTick
    /\ now' = now + 1
    /\ UNCHANGED <<users, tasks, wallet, deleted, created, resp, inflight>>

(************************* the task API at work ****************************)
\* Two users have registered and logged in at time 0; no task exists yet.
RegisteredUsers ==
    [e \in Emails |->
        [id |-> IF e = "a@x.io" THEN 1 ELSE 2,
         hashed_password |-> [salt |-> "s1", digest |-> "pw-one-1"]]]

LoggedIn ==
    {[token |-> create_access_token([sub |-> e],
                                    Some(Minutes(ACCESS_TOKEN_EXPIRE_MINUTES)), 0),
      iat |-> 0, ttl |-> Some(Minutes(ACCESS_TOKEN_EXPIRE_MINUTES))] : e \in Emails}

Init ==
    /\ users = RegisteredUsers
    /\ tasks = <<>>
    /\ now = 0
    /\ wallet = LoggedIn
    /\ deleted = <<>>
    /\ created = <<>>
    /\ resp = NoResponse
    /\ inflight = <<>>

Next ==
    \/ ReadTasks
    \/ CreateTask
    \/ ReadTask
    \/ UpdateTask
    \/ DeleteTask
    \/ Complete
    \/ Tick

Spec == Init /\ [][Next]_vars

(************************* routers/auth.py *********************************)
EmailTaken == [status_code |-> 400, detail |-> "Email already registered", headers |-> ""]
BadLogin == [status_code |-> 401, detail |-> "Incorrect email or password",
             headers |-> "WWW-Authenticate: Bearer"]

\* create_user writing over the table instead of adding to it.
create_user_replacing(db_users, email, hashed_password) ==
    [e \in {email} |-> [id |-> 1, hashed_password |-> hashed_password]]

\* crud.create_user: the table after the INSERT; the key is the next integer.
create_user(db_users, email, hashed_password) ==
    [e \in DOMAIN db_users \cup {email} |->
        IF e = email
        THEN [id |-> Cardinality(DOMAIN db_users) + 1, hashed_password |-> hashed_password]
        ELSE db_users[e]]

\* A client keeps the token it was handed while it has room for it.
Keep(token, ttl) ==
    IF Cardinality(wallet) < MaxTokens
    THEN wallet \cup {[token |-> token, iat |-> now, ttl |-> ttl]}
    ELSE wallet

Register ==
    /\ Idle
    /\ \E email \in Emails, password \in Passwords :
          LET req == [email |-> email, password |-> password]
          IN IF get_user_by_email(users, email) # Nothing
             THEN /\ resp' = Failed("register", 0, 0, req, EmailTaken)
                  /\ UNCHANGED users
             ELSE \E h \in get_password_hash(password) :
                     LET db == create_user(users, email, h)
                     IN /\ users' = db
                        /\ resp' = Ok("register", db[email].id, 0, req,
                                      <<[id |-> db[email].id, email |-> email]>>)
    /\ UNCHANGED <<tasks, now, wallet, deleted, created, inflight>>

Login ==
    /\ Idle
    /\ \E email \in Emails, password \in Passwords :
          LET req == [email |-> email, password |-> password]
              user == authenticate_user(users, email, password)
          IN IF user = Nothing
             THEN /\ resp' = Failed("login", 0, 0, req, BadLogin)
                  /\ UNCHANGED wallet
             ELSE LET ttl == Some(Minutes(ACCESS_TOKEN_EXPIRE_MINUTES))
                      token == create_access_token([sub |-> Get(user).email], ttl, now)
                  IN /\ resp' = Ok("login", Get(user).id, 0, req,
                                   <<[access_token |-> token, token_type |-> "bearer"]>>)
                     /\ wallet' = Keep(token, ttl)
    /\ UNCHANGED <<users, tasks, now, deleted, created, inflight>>

(************************ auth.py called directly **************************)
\* Claim dictionaries: a subject email, no subject, a subject that is no string.
ClaimDicts == {[sub |-> "a@x.io"], EmptyDict, [sub |-> NonStringSub]}
\* expires_delta: None, or a duration in ticks.
Deltas == {Nothing, Some(0), Some(1), Some(2)}

Forbidden == [status_code |-> 403, detail |-> "Forbidden", headers |-> ""]

IssueToken ==
    /\ Idle
    /\ \E data \in ClaimDicts, expires_delta \in Deltas :
          LET token == create_access_token(data, expires_delta, now)
          IN /\ resp' = Ok("create_access_token", 0, 0,
                           [data |-> data, expires_delta |-> expires_delta], <<token>>)
             /\ wallet' = Keep(token, expires_delta)
    /\ UNCHANGED <<users, tasks, now, deleted, created, inflight>>

\* The result of verify_token as a response: the TokenData, or the exception.
VerifyToken ==
    /\ Idle
    /\ \E w \in wallet, exc \in {CredentialsException, Forbidden} :
       \E token \in {w.token, Tamper(w.token), Malformed} :
          LET token_data == verify_token(token, exc, now)
              req == [issued |-> w, token |-> token, exc |-> exc]
          IN resp' = IF token_data.raised = NoException
                     THEN Ok("verify_token", 0, 0, req, <<[email |-> token_data.email]>>)
                     ELSE Failed("verify_token", 0, 0, req, token_data.raised)
    /\ UNCHANGED <<users, tasks, now, wallet, deleted, created, inflight>>

\* The dependency of every protected route, on its own.
CurrentUser ==
    /\ Idle
    /\ \E token \in PresentableTokens :
          LET auth == get_current_user(token, users, now)
          IN resp' = IF auth.user = Nothing
                     THEN Failed("current_user", 0, 0, [token |-> token], auth.raised)
                     ELSE Ok("current_user", Get(auth.user).id, 0, [token |-> token],
                             <<Get(auth.user)>>)
    /\ UNCHANGED <<users, tasks, now, wallet, deleted, created, inflight>>

TickAuth ==
    /\ Idle
    /\ now < MaxAuthTick
    /\ now' = now + 1
    /\ UNCHANGED <<users, tasks, wallet, deleted, created, resp, inflight>>

(********************** the credential service at work *********************)
\* The tables as created: no user, no task.
InitAuth ==
    /\ users = <<>>
    /\ tasks = <<>>
    /\ now = 0
    /\ wallet = {}
    /\ deleted = <<>>
    /\ created = <<>>
    /\ resp = NoResponse
    /\ inflight = <<>>

NextAuth ==
    \/ Register
    \/ Login
    \/ IssueToken
    \/ VerifyToken
    \/ CurrentUser
    \/ Complete
    \/ TickAuth

SpecAuth == InitAuth /\ [][NextAuth]_vars

(******************** requests served at the same time ********************)
\* Every request works on a database session of its own and nothing is
\* locked, so the statements of two requests can alternate: the lookup of a
\* handler and its commit are separate steps here.
MaxClients == 2
Clients == 1..MaxClients

\* Bodies of the PUT requests that are served at the same time.
RaceBodies == {EmptyDict, [status |-> "done"], [title |-> "Buy bread"]}

NoHash == [salt |-> "", digest |-> ""]

\* A request between its lookup and its commit: what its handler holds.
Pending(op, uid, tid, req, hashed_password) ==
    [op |-> op, uid |-> uid, tid |-> tid, req |-> req,
     hashed_password |-> hashed_password]

\* What the session raises when its statement no longer fits the table: an
\* INSERT of an email that is stored, an UPDATE of a row that is gone, a
\* refresh of a row that is gone.  No handler catches them.
IntegrityError == Uncaught("IntegrityError")
StaleDataError == Uncaught("StaleDataError")
InvalidRequestError == Uncaught("InvalidRequestError")

\* POST /auth/register up to the call of create_user: the email is looked up
\* and a stored one is refused.
StartRegister ==
    /\ Idle
    /\ \E c \in Clients \ DOMAIN inflight, email \in Emails, password \in Passwords :
          LET req == [email |-> email, password |-> password]
          IN IF get_user_by_email(users, email) # Nothing
             THEN /\ resp' = Failed("register", 0, 0, req, EmailTaken)
                  /\ UNCHANGED inflight
             ELSE \E h \in get_password_hash(password) :
                     /\ inflight' = Record(inflight, c, Pending("register", 0, 0, req, h))
                     /\ UNCHANGED resp
    /\ UNCHANGED <<users, tasks, now, wallet, deleted, created>>

\* create_user's db.add and db.commit: the INSERT, which the unique email
\* column refuses when the email has been stored in the meantime.
CommitRegister ==
    /\ Idle
    /\ \E c \in DOMAIN inflight :
          LET p == inflight[c]
          IN /\ p.op = "register"
             /\ inflight' = Without(inflight, c)
             /\ IF p.req.email \in DOMAIN users
                THEN /\ resp' = Failed("register", 0, 0, p.req, IntegrityError)
                     /\ UNCHANGED users
                ELSE LET db == create_user(users, p.req.email, p.hashed_password)
                     IN /\ users' = db
                        /\ resp' = Ok("register", db[p.req.email].id, 0, p.req,
                                      <<[id |-> db[p.req.email].id, email |-> p.req.email]>>)
    /\ UNCHANGED <<tasks, now, wallet, deleted, created>>

\* update_task up to "if not db_task: return None".
StartUpdate ==
    /\ Idle
    /\ \E c \in Clients \ DOMAIN inflight, w \in wallet :
          LET auth == get_current_user(w.token, users, now)
          IN IF auth.user = Nothing
             THEN /\ resp' = Denied("update_task", auth.raised)
                  /\ UNCHANGED inflight
             ELSE \E task_id \in TaskIds, body \in RaceBodies :
                     LET uid == Get(auth.user).id
                         db_task == get_task(tasks, task_id, uid)
                     IN IF db_task = Nothing
                        THEN /\ resp' = Failed("update_task", uid, task_id, body, NotFound)
                             /\ UNCHANGED inflight
                        ELSE /\ inflight' = Record(inflight, c,
                                                   Pending("update_task", uid, Get(db_task),
                                                           body, NoHash))
                             /\ UNCHANGED resp
    /\ UNCHANGED <<users, tasks, now, wallet, deleted, created>>

\* update_task from the setattr loop on: the UPDATE of the row by its key,
\* the commit and the refresh.  When the row is gone the UPDATE matches no
\* row (StaleDataError); when no field is set and the session has nothing
\* to write, the refresh finds no row (InvalidRequestError).
CommitUpdate ==
    /\ Idle
    /\ \E c \in DOMAIN inflight :
          LET p == inflight[c]
              update_data == TaskUpdate(p.req)
          IN /\ p.op = "update_task"
             /\ inflight' = Without(inflight, c)
             /\ IF p.tid \in DOMAIN tasks
                THEN LET db == [tasks EXCEPT
                                  ![p.tid] = OnUpdate(SetAttrs(tasks[p.tid], update_data), now)]
                     IN /\ tasks' = db
                        /\ resp' = Ok("update_task", p.uid, p.tid, p.req,
                                      <<TaskOut(db, p.tid)>>)
                ELSE /\ tasks' = tasks
                     /\ \E exc \in IF DOMAIN update_data = {}
                                   THEN {StaleDataError, InvalidRequestError}
                                   ELSE {StaleDataError} :
                           resp' = Failed("update_task", p.uid, p.tid, p.req, exc)
    /\ UNCHANGED <<users, now, wallet, deleted, created>>

\* delete_task up to "if not db_task: return None".
StartDelete ==
    /\ Idle
    /\ \E c \in Clients \ DOMAIN inflight, w \in wallet :
          LET auth == get_current_user(w.token, users, now)
          IN IF auth.user = Nothing
             THEN /\ resp' = Denied("delete_task", auth.raised)
                  /\ UNCHANGED inflight
             ELSE \E task_id \in TaskIds :
                     LET uid == Get(auth.user).id
                         db_task == get_task(tasks, task_id, uid)
                     IN IF db_task = Nothing
                        THEN /\ resp' = Failed("delete_task", uid, task_id, EmptyDict, NotFound)
                             /\ UNCHANGED inflight
                        ELSE /\ inflight' = Record(inflight, c,
                                                   Pending("delete_task", uid, Get(db_task),
                                                           EmptyDict, NoHash))
                             /\ UNCHANGED resp
    /\ UNCHANGED <<users, tasks, now, wallet, deleted, created>>

\* delete_task's db.delete and db.commit: the DELETE of the row by its key.
\* A DELETE that matches no row is only warned about; the commit succeeds
\* and the handler returns its message.
CommitDelete ==
    /\ Idle
    /\ \E c \in DOMAIN inflight :
          LET p == inflight[c]
          IN /\ p.op = "delete_task"
             /\ inflight' = Without(inflight, c)
             /\ tasks' = [x \in DOMAIN tasks \ {p.tid} |-> tasks[x]]
             /\ resp' = Ok("delete_task", p.uid, p.tid, EmptyDict,
                           <<[message |-> "Task deleted successfully"]>>)
    /\ UNCHANGED <<users, now, wallet, deleted, created>>

\* One user has registered and logged in and has one task.
InitRace ==
    /\ users = [e \in {"a@x.io"} |-> RegisteredUsers[e]]
    /\ tasks = create_task(<<>>, TaskCreate([title |-> "Buy milk"]), 1, 1, 0)
    /\ now = 0
    /\ wallet = {w \in LoggedIn : w.token.sub = "a@x.io"}
    /\ deleted = <<>>
    /\ created = <<>>
    /\ resp = NoResponse
    /\ inflight = <<>>

NextRace ==
    \/ StartRegister
    \/ CommitRegister
    \/ StartUpdate
    \/ CommitUpdate
    \/ StartDelete
    \/ CommitDelete
    \/ Complete

SpecRace == InitRace /\ [][NextRace]_vars

(******************************* claims ************************************)
\* The step is a request of one of the kinds in ops, answered by resp'.
Request(ops) == Idle /\ resp'.op \in ops

PerTask == {"read_task", "update_task", "delete_task"}

\* C1: a task of user A is out of reach of every other user B: read_task,
\* update_task and delete_task by B on its id answer 404 "Task not found",
\* the answer for an id that does not exist, and change nothing; read_tasks
\* by B returns only B's rows, whatever skip and limit are.
OwnershipIsolation ==
    [][LET r == resp'
       IN /\ (Request(PerTask) /\ r.code # 401
                /\ (r.tid \notin DOMAIN tasks \/ tasks[r.tid].user_id # r.uid))
             => (r.code = 404 /\ r.error = NotFound /\ r.out = <<>> /\ tasks' = tasks)
          /\ (Request({"read_tasks"}) /\ r.code = 200)
             => \A i \in 1..Len(r.out) :
                   /\ r.out[i].id \in DOMAIN tasks
                   /\ tasks[r.out[i].id].user_id = r.uid
                   /\ r.out[i].user_id = r.uid]_vars

\* C1 witness: an update of an existing task by a user who does not own it
\* was answered 404.
ForeignUpdateRefused ==
    /\ resp.op = "update_task"
    /\ resp.code = 404
    /\ resp.tid \in DOMAIN tasks
    /\ tasks[resp.tid].user_id # resp.uid

\* C5: a successful update sets exactly the fields named in the request to
\* the values given, and leaves the other fields of the task (owner and
\* creation time included) and every other task as they were.
PartialUpdateFrame ==
    [][LET r == resp'
       IN (Request({"update_task"}) /\ r.code = 200)
          => /\ r.tid \in DOMAIN tasks
             /\ DOMAIN tasks' = DOMAIN tasks
             /\ \A f \in FieldNames :
                   tasks'[r.tid][f] = IF f \in DOMAIN r.req THEN r.req[f] ELSE tasks[r.tid][f]
             /\ tasks'[r.tid].user_id = tasks[r.tid].user_id
             /\ tasks'[r.tid].created_at = tasks[r.tid].created_at
             /\ \A x \in DOMAIN tasks \ {r.tid} : tasks'[x] = tasks[x]
             /\ r.out = <<TaskOut(tasks', r.tid)>>]_vars

\* C5 witness: an update of the status alone succeeded on a task whose title
\* is still the one it was created with, while another task is stored.
StatusOnlyUpdate ==
    /\ resp.op = "update_task"
    /\ resp.code = 200
    /\ DOMAIN resp.req = {"status"}
    /\ resp.out[1].status = "done"
    /\ resp.out[1].title = "Buy milk"
    /\ Cardinality(DOMAIN tasks) = 2

DeleteIsPermanent ==
    /\ [](\A x \in DOMAIN deleted : x \notin DOMAIN tasks)
    /\ [][LET r == resp'
          IN /\ (Request({"delete_task"}) /\ r.code = 200)
                => (r.tid \in DOMAIN tasks /\ r.tid \notin DOMAIN tasks')
             /\ (Request(PerTask) /\ r.tid \in DOMAIN deleted /\ deleted[r.tid] = r.uid)
                => (r.code = 404 /\ r.error = NotFound)
             /\ (Request({"read_tasks"}) /\ r.code = 200)
                => \A i \in 1..Len(r.out) : r.out[i].id \notin DOMAIN deleted]_vars

\* C7 witness: the user who deleted a task asked for it again and got 404.
GetAfterDelete ==
    /\ resp.op = "read_task"
    /\ resp.code = 404
    /\ resp.tid \in DOMAIN deleted
    /\ deleted[resp.tid] = resp.uid

\* C8: while no update or delete of a created task has succeeded, read_task
\* by its owner returns the Task that create returned, equal in every field,
\* and the owner's unpaged read_tasks contains it.
CreateGetRoundTrip ==
    [][LET r == resp'
       IN /\ (Request({"read_task"}) /\ r.tid \in DOMAIN created
                /\ created[r.tid].user_id = r.uid)
             => (r.code = 200 /\ r.out = <<created[r.tid]>>)
          /\ (Request({"read_tasks"}) /\ r.code = 200
                /\ r.req.skip = 0 /\ r.req.limit = DefaultLimit)
             => \A x \in DOMAIN created :
                   created[x].user_id = r.uid
                   => \E i \in 1..Len(r.out) : r.out[i] = created[x]]_vars

\* C8 witness: a task was read back by its owner at a later time than its
\* creation, with no update or delete of it in between, while the owner has
\* a second task.
GetAfterCreate ==
    /\ resp.op = "read_task"
    /\ resp.code = 200
    /\ resp.tid \in DOMAIN created
    /\ now > created[resp.tid].created_at
    /\ \A x \in DOMAIN tasks : tasks[x].user_id = resp.uid
    /\ Cardinality(DOMAIN tasks) = 2

\* C9: the Task that create returns has status todo whatever the request
\* says, the requested priority or medium when none is requested, the
\* caller's id as owner, an id that no stored task had, and equal creation
\* and update times; it is the row now stored under that id.
CreateDefaults ==
    [][LET r == resp'
       IN (Request({"create_task"}) /\ r.code = 200)
          => /\ Len(r.out) = 1
             /\ r.out[1].status = "todo"
             /\ r.out[1].priority = IF "priority" \in DOMAIN r.req
                                    THEN r.req["priority"] ELSE "medium"
             /\ r.out[1].user_id = r.uid
             /\ r.out[1].id \notin DOMAIN tasks
             /\ r.out[1].created_at = r.out[1].updated_at
             /\ r.out[1].created_at = now
             /\ r.out[1].title = r.req["title"]
             /\ r.out[1].id \in DOMAIN tasks'
             /\ r.out[1] = TaskOut(tasks', r.out[1].id)]_vars

\* C9 witness: a create that asked for status done and named no priority
\* was answered while another task was stored.
CreateWithStatusRequested ==
    /\ resp.op = "create_task"
    /\ resp.code = 200
    /\ "status" \in DOMAIN resp.req
    /\ "priority" \notin DOMAIN resp.req
    /\ Cardinality(DOMAIN tasks) = 2

\* C2: a token issued for a subject email with a positive ttl verifies, and
\* yields that email, at every time strictly before issuance + ttl, and is
\* refused with the caller's exception at issuance + ttl and at every later
\* time.
TokenExpiryBoundary ==
    (/\ resp.op = "verify_token"
     /\ resp.req.token = resp.req.issued.token
     /\ resp.req.token.sub \in Emails
     /\ resp.req.issued.ttl # Nothing
     /\ Get(resp.req.issued.ttl) > 0)
    => LET w == resp.req.issued
           deadline == w.iat + Get(w.ttl)
       IN /\ (now < deadline)
             => (resp.code = 200 /\ resp.out = <<[email |-> w.token.sub]>>)
          /\ (now >= deadline)
             => (resp.code # 200 /\ resp.error = resp.req.exc)

\* What verify_token does at the boundary of C2: the token is accepted until
\* the clock's whole second passes the whole second of issuance + ttl.
TokenAcceptedThroughExpirySecond ==
    (/\ resp.op = "verify_token"
     /\ resp.req.token = resp.req.issued.token
     /\ resp.req.token.sub \in Emails
     /\ resp.req.issued.ttl # Nothing
     /\ Get(resp.req.issued.ttl) > 0)
    => LET w == resp.req.issued
           deadline == w.iat + Get(w.ttl)
       IN IF timegm(now) <= timegm(deadline)
          THEN resp.code = 200 /\ resp.out = <<[email |-> w.token.sub]>>
          ELSE resp.code # 200 /\ resp.error = resp.req.exc

\* C3: for a token that is not valid (no JWT, altered signature, expired,
\* no subject, a subject that is no string) verify_token raises the
\* exception its caller supplied, and it never raises anything else.
UniformTokenError ==
    resp.op = "verify_token"
    => LET tok == resp.req.token
           invalid == \/ tok.sig # Signed
                      \/ tok.exp < timegm(now)
                      \/ tok.sub \in {NoSub, NonStringSub}
       IN /\ invalid => (/\ resp.code = resp.req.exc.status_code
                         /\ resp.error = resp.req.exc
                         /\ resp.out = <<>>)
          /\ resp.error \in {NoException, resp.req.exc}

\* C3 witness: a correctly signed token was verified after its expiry and the
\* exception the caller supplied was raised.
ExpiredTokenRefused ==
    /\ resp.op = "verify_token"
    /\ resp.req.token.sig = Signed
    /\ resp.req.token.sub \in Emails
    /\ resp.req.token.exp < timegm(now)
    /\ resp.req.exc = Forbidden
    /\ resp.error = Forbidden

\* C4: every request that get_current_user turns away gets the one response
\* 401 "Could not validate credentials" with the WWW-Authenticate header,
\* whether the token is invalid or valid for an email that no user has.
SingleErrorSurface ==
    (resp.op = "current_user" /\ resp.code # 200)
    => (/\ resp.code = 401
        /\ resp.error = CredentialsException
        /\ resp.out = <<>>)

\* C4 witness: a correctly signed, unexpired token whose subject is no stored
\* user's email was turned away.
ValidTokenUnknownUser ==
    /\ resp.op = "current_user"
    /\ resp.code = 401
    /\ resp.req.token.sig = Signed
    /\ resp.req.token.exp >= timegm(now)
    /\ resp.req.token.sub \in Emails
    /\ resp.req.token.sub \notin DOMAIN users
    /\ users # <<>>

\* C10: login yields a bearer token for the user exactly when the email is
\* registered and the password is the one whose hash is stored for it; a
\* wrong password and an unregistered email get the same 401 "Incorrect
\* email or password", and a failed login changes nothing stored.
LoginOutcome ==
    [][LET r == resp'
       IN Request({"login"})
          => LET known == r.req.email \in DOMAIN users
                 match == known /\ users[r.req.email].hashed_password.digest = r.req.password
             IN /\ (r.code = 200) <=> match
                /\ match => (/\ r.uid = users[r.req.email].id
                             /\ Len(r.out) = 1
                             /\ r.out[1].token_type = "bearer"
                             /\ r.out[1].access_token.sub = r.req.email
                             /\ r.out[1].access_token.sig = Signed)
                /\ ~match => (/\ r.code = 401
                              /\ r.error = BadLogin
                              /\ r.out = <<>>
                              /\ UNCHANGED <<users, tasks, wallet>>)]_vars

\* C10 witness: a login with a wrong password for a registered email failed.
WrongPasswordLogin ==
    /\ resp.op = "login"
    /\ resp.code = 401
    /\ resp.req.email \in DOMAIN users
    /\ users[resp.req.email].hashed_password.digest # resp.req.password


\* C11: no two users share an email; a registration of an email that a user
\* has is answered 400 "Email already registered", creates no user and leaves
\* the stored users as they were, also when another registration of the same
\* email is under way.
EmailUniqueness ==
    [][LET r == resp'
       IN /\ \A e \in DOMAIN users : e \in DOMAIN users' /\ users'[e] = users[e]
          /\ \A e1, e2 \in DOMAIN users' :
                users'[e1].id = users'[e2].id => e1 = e2
          /\ (Request({"register"}) /\ r.req.email \in DOMAIN users)
             => (r.code = 400 /\ r.error = EmailTaken /\ users' = users)
          /\ (Request({"register"}) /\ r.code = 200)
             => (r.req.email \notin DOMAIN users /\ r.req.email \in DOMAIN users')]_vars

\* C12: nothing revokes a token.  No step removes or alters a stored user,
\* and whenever a correctly signed token whose subject is a stored user's
\* email is presented before its encoded expiry, get_current_user resolves
\* it to that user, whatever logins, registrations and issued tokens came in
\* between.
NoRevocation ==
    /\ [][\A e \in DOMAIN users : e \in DOMAIN users' /\ users'[e].id = users[e].id]_vars
    /\ []((/\ resp.op = "current_user"
           /\ resp.req.token.sig = Signed
           /\ resp.req.token.sub \in DOMAIN users
           /\ timegm(now) < resp.req.token.exp)
          => (/\ resp.code = 200
              /\ resp.uid = users[resp.req.token.sub].id
              /\ resp.out = <<UserRow(users, resp.req.token.sub)>>))

\* C12 witness: a token was accepted at a later time than its issuance, for
\* the first user, after a second user had registered.
TokenStillValidLater ==
    /\ resp.op = "current_user"
    /\ resp.code = 200
    /\ resp.uid = 1
    /\ Cardinality(DOMAIN users) = 2
    /\ \E w \in wallet : w.token = resp.req.token /\ w.iat < now

\* C13: the token create_access_token returns carries the expiry now + ttl
\* for every ttl the caller supplies, and now + 15 minutes when the caller
\* supplies none; the claim dictionary passed in has gained no key.
ExpiryEncoding ==
    resp.op = "create_access_token"
    => LET expires_delta == resp.req.expires_delta
           token == resp.out[1]
       IN /\ expires_delta # Nothing
             => token.exp = timegm(now + Get(expires_delta))
          /\ expires_delta = Nothing
             => token.exp = timegm(now + Minutes(DefaultExpireMinutes))
          /\ "exp" \notin DOMAIN resp.req.data
          /\ token.sub = IF "sub" \in DOMAIN resp.req.data
                         THEN resp.req.data["sub"] ELSE NoSub

\* The response r is the page (skip, limit) of the tasks of r.uid in db_tasks,
\* taken from the ordering of them by key: it holds the tasks at the
\* positions skip + 1 .. skip + limit, each once and as it is stored.
IsPage(r, db_tasks) ==
    LET own == {x \in DOMAIN db_tasks : db_tasks[x].user_id = r.uid}
        rank(x) == Cardinality({y \in own : y <= x})
    IN /\ \A i \in 1..Len(r.out) :
             /\ i <= r.req.limit
             /\ r.out[i].id \in own
             /\ r.out[i] = TaskOut(db_tasks, r.out[i].id)
             /\ rank(r.out[i].id) = r.req.skip + i
       /\ \A x \in own :
             (r.req.skip < rank(x) /\ rank(x) <= r.req.skip + r.req.limit)
             => \E i \in 1..Len(r.out) : r.out[i].id = x

\* C14: for every skip and limit, read_tasks returns exactly the caller's
\* tasks at the positions skip + 1 .. skip + limit of one ordering of them,
\* at most limit tasks, and changes nothing.  The result is then a function
\* of the table, so repeated calls agree, pages over disjoint ranges share no
\* task and consecutive pages together hold every task of the caller.
ListPagination ==
    [][(Request({"read_tasks"}) /\ resp'.code = 200)
       => (IsPage(resp', tasks) /\ tasks' = tasks)]_vars

\* What read_tasks does: the statement of C14 holds of the calls whose skip
\* and limit are not negative.
ListPaginationOfNaturals ==
    [][(Request({"read_tasks"}) /\ resp'.code = 200
          /\ resp'.req.skip >= 0 /\ resp'.req.limit >= 0)
       => (IsPage(resp', tasks) /\ tasks' = tasks)]_vars

\* C15: a stored task keeps its owner; a step that changes a field of a task
\* or removes it is a successful update_task or delete_task of that task by
\* its owner; a new task comes from create_task and belongs to the caller;
\* read_task, read_tasks and every update_task or delete_task answered 404
\* leave the tasks table as it was.
OwnerOnlyMutation ==
    [][LET r == resp'
       IN /\ \A x \in DOMAIN tasks :
                /\ x \in DOMAIN tasks' => tasks'[x].user_id = tasks[x].user_id
                /\ (x \notin DOMAIN tasks' \/ tasks'[x] # tasks[x])
                   => (/\ Request({"update_task", "delete_task"})
                       /\ r.code = 200
                       /\ r.tid = x
                       /\ r.uid = tasks[x].user_id)
          /\ \A x \in DOMAIN tasks' \ DOMAIN tasks :
                /\ Request({"create_task"})
                /\ r.out[1].id = x
                /\ tasks'[x].user_id = r.uid
          /\ (\/ Request({"read_task", "read_tasks"})
              \/ (Request({"update_task", "delete_task"}) /\ r.code = 404))
             => tasks' = tasks]_vars

\* C15 witness: a user deleted a task of its own while a task of the other
\* user was stored, and that task is still there.
OwnerDeletesBesideForeignTask ==
    /\ resp.op = "delete_task"
    /\ resp.code = 200
    /\ \E x \in DOMAIN tasks : tasks[x].user_id # resp.uid

\* C16: when requests of a task's owner on that task are served at the same
\* time, each ends in its success value or in 404 "Task not found" and in no
\* other error, an update does not bring a deleted task back, and a delete
\* reports success only when it removed the task, so of two deletes at most
\* one does.
NotFoundOnlyUnderInterleaving ==
    [][LET r == resp'
       IN /\ (Request({"update_task", "delete_task"}) /\ r.uid # 0)
             => (/\ r.code \in {200, 404}
                 /\ r.code = 404 => r.error = NotFound
                 /\ r.code = 200 => r.error = NoException)
          /\ Request({"update_task"}) => DOMAIN tasks' \subseteq DOMAIN tasks
          /\ (Request({"delete_task"}) /\ r.code = 200)
             => (r.tid \in DOMAIN tasks /\ r.tid \notin DOMAIN tasks')]_vars

====
